---- MODULE Spec2Model ----
(***************************************************************************)
(* A model of src/src/redis_client.py: the RedisClient facade over the     *)
(* redis.asyncio driver.  Three specifications share the module:           *)
(*   SpecCodec  - _serialize / _deserialize applied to bounded values      *)
(*   SpecTopo   - construction under every topology setting, then probes   *)
(*   Spec       - one facade call at a time on the constructed client: the *)
(*                backoff retry wrapper, the per-operation try/except      *)
(*                bodies, and a small key-value store behind the driver    *)
(***************************************************************************)
EXTENDS Integers, Sequences, FiniteSets, TLC

\* ------------------------------------------------------------------------
\* Bounds of the model
\* ------------------------------------------------------------------------
\* longest list / mapping generated as a composite input
MaxLen == 2
\* largest retry_attempts setting explored
MaxAttempts == 3

\* ------------------------------------------------------------------------
\* Application values (Python objects handed to the facade)
\*   text is a sequence of one-character strings
\*   record constructors list their fields in the order the names first
\*   appear in this module, the order in which TLC keeps a record's fields
\* ------------------------------------------------------------------------
PyNone == [t |-> "none"]
PyStr(s) == [t |-> "str", v |-> s]
PyInt(n) == [t |-> "int", v |-> n]
\* a finite float: (-1)^neg * m / 10^d, d >= 1, no trailing zero beyond d = 1
PyFloat(neg, m, d) == [t |-> "float", neg |-> neg, m |-> m, d |-> d]
\* float('inf')
PyInf == [t |-> "inf"]
PyBool(b) == [t |-> "bool", v |-> b]
PyList(xs) == [t |-> "list", v |-> xs]
\* a dict in insertion order: a sequence of <<key text, value>> with distinct keys
PyDict(kvs) == [t |-> "dict", v |-> kvs]
\* an object orjson has no encoding for (a set, a custom class instance)
PyOpaque == [t |-> "opaque"]

DigitChars == <<"0", "1", "2", "3", "4", "5", "6", "7", "8", "9">>

IsDigit(c) == \E k \in 1..10 : DigitChars[k] = c

DigitVal(c) == (CHOOSE k \in 1..10 : DigitChars[k] = c) - 1

RECURSIVE Digits(_)
\* decimal digits of a natural number, as text
Digits(n) == IF n < 10 THEN <<DigitChars[n + 1]>>
             ELSE Digits(n \div 10) \o <<DigitChars[(n % 10) + 1]>>

RECURSIVE Pow10(_)
Pow10(d) == IF d = 0 THEN 1 ELSE 10 * Pow10(d - 1)

RECURSIVE PadDigits(_, _)
\* n written with exactly d digits (leading zeros)
PadDigits(n, d) == IF d = 0 THEN <<>>
                   ELSE PadDigits(n \div 10, d - 1) \o <<DigitChars[(n % 10) + 1]>>

\* Python str() of int, float, bool and str
StrOf(v) ==
    CASE v.t = "str" -> v.v
      [] v.t = "int" -> IF v.v < 0 THEN <<"-">> \o Digits(0 - v.v) ELSE Digits(v.v)
      [] v.t = "float" -> (IF v.neg THEN <<"-">> ELSE <<>>)
                          \o Digits(v.m \div Pow10(v.d)) \o <<".">>
                          \o PadDigits(v.m % Pow10(v.d), v.d)
      [] v.t = "inf" -> <<"i", "n", "f">>
      [] v.t = "bool" -> IF v.v THEN <<"T", "r", "u", "e">>
                         ELSE <<"F", "a", "l", "s", "e">>

\* ------------------------------------------------------------------------
\* orjson.dumps / orjson.loads, as called on lines 225 and 254
\* ------------------------------------------------------------------------
RECURSIVE Encodable(_)
\* orjson.dumps raises for a value that has no JSON encoding, at any depth
Encodable(v) ==
    CASE v.t = "opaque" -> FALSE
      [] v.t = "list" -> \A i \in 1..Len(v.v) : Encodable(v.v[i])
      [] v.t = "dict" -> \A i \in 1..Len(v.v) : Encodable(v.v[i][2])
      [] OTHER -> TRUE

RECURSIVE QuoteBody(_)
\* the characters of a JSON string literal between its quotes
QuoteBody(s) ==
    IF s = <<>> THEN <<>>
    ELSE (IF Head(s) = "\"" \/ Head(s) = "\\" THEN <<"\\", Head(s)>> ELSE <<Head(s)>>)
         \o QuoteBody(Tail(s))

Quote(s) == <<"\"">> \o QuoteBody(s) \o <<"\"">>

\* a scalar written the way str() writes it instead of as JSON
DumpsScalarAsStr(v) ==
    CASE v.t = "none" -> <<"N", "o", "n", "e">>
      [] v.t = "inf" -> StrOf(v)
      [] v.t = "bool" -> StrOf(v)
      [] v.t = "int" -> StrOf(v)
      [] v.t = "float" -> StrOf(v)
      [] v.t = "str" -> Quote(v.v)

\* orjson's text for a scalar: null, true/false, number, quoted string
DumpsScalar(v) ==
    CASE v.t = "none" -> <<"n", "u", "l", "l">>
      [] v.t = "inf" -> <<"n", "u", "l", "l">>
      [] v.t = "bool" -> IF v.v THEN <<"t", "r", "u", "e">>
                         ELSE <<"f", "a", "l", "s", "e">>
      [] v.t = "int" -> StrOf(v)
      [] v.t = "float" -> StrOf(v)
      [] v.t = "str" -> Quote(v.v)

RECURSIVE Dumps(_)
RECURSIVE DumpsItems(_)
RECURSIVE DumpsMembers(_)
\* orjson.dumps(value).decode(): compact JSON text
Dumps(v) ==
    CASE v.t = "list" -> <<"[">> \o DumpsItems(v.v) \o <<"]">>
      [] v.t = "dict" -> <<"{">> \o DumpsMembers(v.v) \o <<"}">>
      [] OTHER -> DumpsScalar(v)

DumpsItems(xs) ==
    IF xs = <<>> THEN <<>>
    ELSE Dumps(Head(xs))
         \o (IF Len(xs) > 1 THEN <<",">> \o DumpsItems(Tail(xs)) ELSE <<>>)

DumpsMembers(kvs) ==
    IF kvs = <<>> THEN <<>>
    ELSE Quote(Head(kvs)[1]) \o <<":">> \o Dumps(Head(kvs)[2])
         \o (IF Len(kvs) > 1 THEN <<",">> \o DumpsMembers(Tail(kvs)) ELSE <<>>)

ParseFail == [ok |-> FALSE]
ParseOk(val, next) == [ok |-> TRUE, val |-> val, next |-> next]

\* the character of s at position i, or "" past the end
At(s, i) == IF i >= 1 /\ i <= Len(s) THEN s[i] ELSE ""

\* does the literal w occur in s at position i
Matches(s, i, w) == i + Len(w) - 1 <= Len(s) /\ \A k \in 1..Len(w) : s[i + k - 1] = w[k]

RECURSIVE ScanDigits(_, _)
\* the first position at or after i that holds no digit
ScanDigits(s, i) == IF IsDigit(At(s, i)) THEN ScanDigits(s, i + 1) ELSE i

RECURSIVE NumVal(_, _, _)
\* the number written by the digits s[i..j-1]
NumVal(s, i, j) == IF i >= j THEN 0 ELSE NumVal(s, i, j - 1) * 10 + DigitVal(s[j - 1])

RECURSIVE NormFloat(_, _, _)
\* the float with mantissa m and d fractional digits, trailing zeros dropped
NormFloat(neg, m, d) == IF d > 1 /\ m % 10 = 0 THEN NormFloat(neg, m \div 10, d - 1)
                        ELSE PyFloat(neg, m, d)

\* a JSON number at position i (sign, integer part without leading zeros,
\* optional fraction; exponent notation is outside the modelled alphabet)
ParseNumber(s, i) ==
    LET neg == At(s, i) = "-"
        j == IF neg THEN i + 1 ELSE i
        ie == ScanDigits(s, j)
        fe == ScanDigits(s, ie + 1)
    IN  IF ie = j \/ (s[j] = "0" /\ ie > j + 1) THEN ParseFail
        ELSE IF At(s, ie) = "."
             THEN IF fe = ie + 1 THEN ParseFail
                  ELSE ParseOk(NormFloat(neg, NumVal(s, j, ie) * Pow10(fe - ie - 1)
                                              + NumVal(s, ie + 1, fe),
                                         fe - ie - 1), fe)
             ELSE ParseOk(PyInt(IF neg THEN 0 - NumVal(s, j, ie) ELSE NumVal(s, j, ie)), ie)

RECURSIVE ParseString(_, _, _)
\* the rest of a string literal whose opening quote precedes position i
ParseString(s, i, acc) ==
    IF i > Len(s) THEN ParseFail
    ELSE IF s[i] = "\"" THEN ParseOk(acc, i + 1)
    ELSE IF s[i] = "\\"
         THEN IF At(s, i + 1) = "\"" \/ At(s, i + 1) = "\\"
              THEN ParseString(s, i + 2, Append(acc, s[i + 1]))
              ELSE ParseFail
    ELSE ParseString(s, i + 1, Append(acc, s[i]))

RECURSIVE ParseValue(_, _)
RECURSIVE ParseItems(_, _, _)
RECURSIVE ParseMembers(_, _, _)
\* one JSON value starting at position i
ParseValue(s, i) ==
    LET c == At(s, i)
    IN  CASE c = "n" -> IF Matches(s, i, <<"n", "u", "l", "l">>)
                        THEN ParseOk(PyNone, i + 4) ELSE ParseFail
          [] c = "t" -> IF Matches(s, i, <<"t", "r", "u", "e">>)
                        THEN ParseOk(PyBool(TRUE), i + 4) ELSE ParseFail
          [] c = "f" -> IF Matches(s, i, <<"f", "a", "l", "s", "e">>)
                        THEN ParseOk(PyBool(FALSE), i + 5) ELSE ParseFail
          [] c = "\"" -> LET r == ParseString(s, i + 1, <<>>)
                         IN  IF r.ok THEN ParseOk(PyStr(r.val), r.next) ELSE ParseFail
          [] c = "[" -> IF At(s, i + 1) = "]" THEN ParseOk(PyList(<<>>), i + 2)
                        ELSE ParseItems(s, i + 1, <<>>)
          [] c = "{" -> IF At(s, i + 1) = "}" THEN ParseOk(PyDict(<<>>), i + 2)
                        ELSE ParseMembers(s, i + 1, <<>>)
          [] c = "-" \/ IsDigit(c) -> ParseNumber(s, i)
          [] OTHER -> ParseFail

\* the items of an array from position i on, up to and including its "]"
ParseItems(s, i, acc) ==
    LET r == ParseValue(s, i)
    IN  IF ~r.ok THEN ParseFail
        ELSE IF At(s, r.next) = "," THEN ParseItems(s, r.next + 1, Append(acc, r.val))
        ELSE IF At(s, r.next) = "]" THEN ParseOk(PyList(Append(acc, r.val)), r.next + 1)
        ELSE ParseFail

\* a later member with the same key replaces the earlier one, in place
PutMember(kvs, k, val) ==
    IF \E n \in 1..Len(kvs) : kvs[n][1] = k
    THEN [n \in 1..Len(kvs) |-> IF kvs[n][1] = k THEN <<k, val>> ELSE kvs[n]]
    ELSE Append(kvs, <<k, val>>)

\* the members of an object from position i on, up to and including its "}"
ParseMembers(s, i, acc) ==
    IF At(s, i) # "\"" THEN ParseFail
    ELSE LET k == ParseString(s, i + 1, <<>>)
         IN  IF ~k.ok \/ At(s, k.next) # ":" THEN ParseFail
             ELSE LET r == ParseValue(s, k.next + 1)
                  IN  IF ~r.ok THEN ParseFail
                      ELSE IF At(s, r.next) = ","
                           THEN ParseMembers(s, r.next + 1, PutMember(acc, k.val, r.val))
                      ELSE IF At(s, r.next) = "}"
                           THEN ParseOk(PyDict(PutMember(acc, k.val, r.val)), r.next + 1)
                      ELSE ParseFail

\* orjson.loads(text): the value, or JSONDecodeError (ok = FALSE)
Loads(s) ==
    LET r == ParseValue(s, 1)
    IN  IF r.ok /\ r.next = Len(s) + 1 THEN [ok |-> TRUE, val |-> r.val] ELSE ParseFail

\* ------------------------------------------------------------------------
\* The codec: RedisClient._serialize and RedisClient._deserialize
\* ------------------------------------------------------------------------
Raised(cls, msg) == [ok |-> FALSE, err |-> [cls |-> cls, msg |-> msg]]

\* _serialize(value): the wire text, or the exception orjson raised
_serialize(value) ==
    IF value.t = "none" THEN [ok |-> TRUE, wire |-> <<>>]
    ELSE IF value.t \in {"str", "int", "float", "inf", "bool"}
         THEN [ok |-> TRUE, wire |-> StrOf(value)]
    ELSE IF Encodable(value) THEN [ok |-> TRUE, wire |-> Dumps(value)]
    ELSE Raised("TypeError", "not serializable")

\* what the driver hands back: nothing, text, or bytes (valid UTF-8 or not)
WNone == [k |-> "none"]
WText(s) == [s |-> s, k |-> "text"]
WBytes(s, valid) == [s |-> s, k |-> "bytes", valid |-> valid]

\* _deserialize(value): the decoded value, or the exception bytes.decode raised
_deserialize(value) ==
    IF value.k = "none" \/ (value.k = "text" /\ value.s = <<>>)
    THEN [ok |-> TRUE, val |-> PyNone]
    ELSE IF value.k = "bytes" /\ ~value.valid
         THEN Raised("UnicodeDecodeError", "invalid start byte")
    ELSE LET r == Loads(value.s)
         IN  IF r.ok THEN [ok |-> TRUE, val |-> r.val]
             ELSE [ok |-> TRUE, val |-> PyStr(value.s)]

\* ------------------------------------------------------------------------
\* Bounded input values
\* ------------------------------------------------------------------------
SampleStrings == {<<"a">>, <<"a", "b">>, <<"1">>, <<"t", "r", "u", "e">>, <<"\"">>, <<>>}

SampleInts == {0 - 1, 0, 2, 12}

SampleFloats == {PyFloat(FALSE, 15, 1), PyFloat(TRUE, 5, 1), PyFloat(FALSE, 20, 1)}

\* the primitive values of the application: None, str, int, float, bool
Primitives ==
    {PyNone, PyInf, PyBool(TRUE), PyBool(FALSE)}
    \cup {PyStr(s) : s \in SampleStrings}
    \cup {PyInt(n) : n \in SampleInts}
    \cup SampleFloats

\* the primitives JSON can represent (no infinity)
JsonLeaves == Primitives \ {PyInf}

DictKeys == {<<"a">>, <<"k">>, <<"1">>}

\* sequences over S of length 0..n
SeqsUpTo(S, n) == UNION {[1..m -> S] : m \in 0..n}

\* dicts of up to n members over values S: distinct keys, any insertion order
DictsUpTo(S, n) ==
    {PyDict(kvs) : kvs \in {q \in SeqsUpTo(DictKeys \X S, n) :
                               \A i, j \in 1..Len(q) : i # j => q[i][1] # q[j][1]}}

ListsUpTo(S, n) == {PyList(xs) : xs \in SeqsUpTo(S, n)}

\* composites nested inside other composites
InnerLeaves == {PyNone, PyBool(TRUE), PyStr(<<"a">>), PyInt(2)}

InnerComposites == ListsUpTo(InnerLeaves, 1) \cup DictsUpTo(InnerLeaves, 1)

\* JSON-representable composite values: lists and string-keyed mappings
Composites ==
    ListsUpTo(JsonLeaves, MaxLen) \cup DictsUpTo(JsonLeaves, 1)
    \cup ListsUpTo(InnerLeaves \cup InnerComposites, MaxLen)
    \cup DictsUpTo(InnerLeaves \cup InnerComposites, MaxLen)

\* values orjson cannot encode: an opaque object, alone or inside a list
Unencodable == {PyOpaque, PyList(<<PyInt(2), PyOpaque>>)}

CodecInputs == Primitives \cup Composites \cup Unencodable

IsPrimitive(v) == v.t \in {"none", "str", "int", "float", "inf", "bool"}

IsComposite(v) == v.t \in {"list", "dict"} /\ Encodable(v)

\* texts found in the store: not JSON, JSON, cut-off JSON, empty
WireTexts == {<<"a">>, <<"1">>, <<"[", "1", "]">>, <<"[", "1">>, <<"{">>, <<>>}

\* replies handed to _deserialize: nothing, text, bytes that are valid UTF-8,
\* and bytes that are not (their text is never obtained)
WireInputs ==
    {WNone} \cup {WText(s) : s \in WireTexts} \cup {WBytes(s, TRUE) : s \in WireTexts}
            \cup {WBytes(<<>>, FALSE)}

\* ------------------------------------------------------------------------
\* Configuration (src/src/config.py, RedisSettings) and topology selection
\* ------------------------------------------------------------------------
\* cluster_nodes: Optional[list] - None, an empty list, or a list of nodes
NodesNone == [given |-> FALSE, nodes |-> <<>>]
NodesEmpty == [given |-> TRUE, nodes |-> <<>>]
NodesSome == [given |-> TRUE, nodes |-> <<"node1">>]

NodeChoices == {NodesNone, NodesEmpty, NodesSome}

\* the truth value Python gives Optional[list]
Truthy(nodes) == nodes.given /\ Len(nodes.nodes) > 0

\* the condition of line 50 with `or` in place of `and`
UsesClusterEitherOne(c) == c.is_cluster \/ Truthy(c.cluster_nodes)

\* line 50: settings.redis.is_cluster and settings.redis.cluster_nodes
UsesCluster(c) == c.is_cluster /\ Truthy(c.cluster_nodes)

\* _init_client with the except block logging and returning instead of
\* re-raising
_init_clientSwallowing(c, old, buildOk) ==
    LET kind == IF UsesCluster(c) THEN "cluster" ELSE "standalone"
    IN  [kind |-> kind,
         client |-> IF buildOk THEN kind ELSE old,
         raised |-> FALSE]

\* _init_client: which kind of client it constructs, and whether the
\* construction raised (then _async_client keeps its old value and the
\* exception is re-raised on line 59)
_init_client(c, old, buildOk) ==
    LET kind == IF UsesCluster(c) THEN "cluster" ELSE "standalone"
    IN  [kind |-> kind,
         client |-> IF buildOk THEN kind ELSE old,
         raised |-> ~buildOk]

\* an accessor that constructs a client on every access
async_Rebuilding(c, old, buildOk) == _init_client(c, old, buildOk)

\* the async_ property: rebuild when the cached handle is absent
async_(c, old, buildOk) ==
    IF old = "none" THEN _init_client(c, old, buildOk)
    ELSE [kind |-> "kept", client |-> old, raised |-> FALSE]

\* _is_connected
_is_connected(cl) == cl # "none"

\* ------------------------------------------------------------------------
\* The facade operations: the decorated async_* methods of RedisClient
\* ------------------------------------------------------------------------
StringOps == {"async_set", "async_get", "async_delete", "async_exists", "async_expire",
              "async_ttl", "async_incr", "async_decr", "async_incrby", "async_decrby",
              "async_strlen", "async_getrange", "async_setrange"}

HashOps == {"async_hset", "async_hget", "async_hgetall", "async_hdel", "async_hexists",
            "async_hlen", "async_hkeys", "async_hvals", "async_hincrby", "async_hmget",
            "async_hsetnx", "async_hscan"}

ListOps == {"async_lpush", "async_rpush", "async_lpop", "async_rpop", "async_llen",
            "async_lindex", "async_lset", "async_lrange", "async_linsert", "async_lrem",
            "async_ltrim", "async_blpop", "async_brpop", "async_brpoplpush"}

SetOps == {"async_sadd", "async_srem", "async_smembers", "async_sismember"}

ZsetOps == {"async_zadd", "async_zrange", "async_zrem"}

KeylessOps == {"async_ping", "async_multi_exec", "async_execute"}

Ops == StringOps \cup HashOps \cup ListOps \cup SetOps \cup ZsetOps \cup KeylessOps

\* operations whose except clause ends in a bare `raise`
RaisingOps == {"async_incr", "async_decr", "async_incrby", "async_decrby",
               "async_setrange", "async_hincrby", "async_multi_exec", "async_execute"}

\* operations that pass a value through _serialize inside their try block
EncodingOps == {"async_set", "async_hset", "async_hsetnx", "async_lpush", "async_rpush",
                "async_lset", "async_linsert", "async_lrem", "async_sadd", "async_srem",
                "async_sismember", "async_zadd", "async_zrem"}

\* operations that pass the driver's reply through _deserialize
DecodingOps == {"async_get", "async_hget", "async_hgetall", "async_hvals", "async_hmget",
                "async_hscan", "async_lpop", "async_rpop", "async_lindex", "async_lrange",
                "async_brpoplpush", "async_smembers", "async_zrange"}

\* commands that change the store (a read-only replica rejects them)
WriteOps == {"async_set", "async_delete", "async_expire", "async_incr", "async_decr",
             "async_incrby", "async_decrby", "async_setrange", "async_hset", "async_hdel",
             "async_hincrby", "async_hsetnx", "async_lpush", "async_rpush", "async_lpop",
             "async_rpop", "async_lset", "async_linsert", "async_lrem", "async_ltrim",
             "async_blpop", "async_brpop", "async_brpoplpush", "async_sadd", "async_srem",
             "async_zadd", "async_zrem"}

\* commands that create the key when it is absent
CreatingOps == {"async_setrange", "async_hset", "async_hincrby", "async_hsetnx",
                "async_lpush", "async_rpush", "async_sadd", "async_zadd"}

\* the type of key a command works on; "any" for the type-agnostic ones
KeyType(op) ==
    IF op \in {"async_delete", "async_exists", "async_expire", "async_ttl"} THEN "any"
    ELSE IF op \in StringOps THEN "string"
    ELSE IF op \in HashOps THEN "hash"
    ELSE IF op \in ListOps THEN "list"
    ELSE IF op \in SetOps THEN "set"
    ELSE IF op \in ZsetOps THEN "zset"
    ELSE "nokey"

\* every handler re-raising, like async_incr
PolicyAlwaysRaises(op) == IF op = "async_set" THEN "set" ELSE "raise"

\* what the except clause of an operation does with the exception
Policy(op) ==
    IF op = "async_set" THEN "set"
    ELSE IF op \in RaisingOps THEN "raise"
    ELSE "default"

PyEmptySet == [t |-> "set", v |-> {}]
PyTuple(xs) == [t |-> "tuple", v |-> xs]

\* the value the except clause of a defaulting operation returns
Default(op) ==
    CASE op \in {"async_get", "async_hget", "async_lpop", "async_rpop", "async_lindex",
                 "async_blpop", "async_brpop", "async_brpoplpush", "async_zadd"} -> PyNone
      [] op \in {"async_ping", "async_set", "async_expire", "async_hexists", "async_hsetnx",
                 "async_lset", "async_ltrim", "async_sismember"} -> PyBool(FALSE)
      [] op \in {"async_delete", "async_exists", "async_strlen", "async_hset", "async_hdel",
                 "async_hlen", "async_lpush", "async_rpush", "async_llen", "async_lrem",
                 "async_sadd", "async_srem", "async_zrem"} -> PyInt(0)
      [] op = "async_ttl" -> PyInt(0 - 2)
      [] op = "async_linsert" -> PyInt(0 - 1)
      [] op = "async_getrange" -> PyStr(<<>>)
      [] op \in {"async_hgetall", "async_hmget"} -> PyDict(<<>>)
      [] op \in {"async_hkeys", "async_hvals", "async_lrange", "async_zrange"} -> PyList(<<>>)
      [] op = "async_hscan" -> PyTuple(<<PyInt(0), PyDict(<<>>)>>)
      [] op = "async_smembers" -> PyEmptySet

\* ------------------------------------------------------------------------
\* The store behind the driver: one entry per key
\* ------------------------------------------------------------------------
Keys == {"k"}

\* largest absolute value a counter key is driven to
MaxCounter == 2

\* no expiry
NoTtl == 0 - 1

Absent == [wire |-> <<>>, type |-> "none", ttl |-> NoTtl]
StringEntry(wire, ttl) == [wire |-> wire, type |-> "string", ttl |-> ttl]
\* a hash, list, set or sorted set (its members are not tracked)
OtherEntry(type, ttl) == [wire |-> <<>>, type |-> type, ttl |-> ttl]

\* exception classes of redis.exceptions that derive from RedisError
RedisErrors == {"redis.ConnectionError", "redis.TimeoutError", "redis.ResponseError",
                "redis.DataError"}

\* connection and transport failures
Transient == {"redis.ConnectionError", "redis.TimeoutError"}

\* the transaction calls: self.async_.multi() and self.async_.execute()
BatchOps == {"async_multi_exec", "async_execute"}

\* what can befall one driver call: nothing, a transient failure, (for a
\* write) the server being a read-only replica, or (for multi() and execute(),
\* which the facade looks up on the client object itself, not on a pipeline)
\* the client object not offering the method
FaultsOf(op) ==
    {"ok"} \cup Transient \cup (IF op \in WriteOps THEN {"READONLY"} ELSE {})
           \cup (IF op \in BatchOps THEN {"AttributeError"} ELSE {})

Error(cls, msg) == [cls |-> cls, msg |-> msg]

DrvOk(val, st) == [ok |-> TRUE, val |-> val, st |-> st]
DrvErr(cls, msg, st) == [ok |-> FALSE, err |-> Error(cls, msg), st |-> st]

WrongType(st) == DrvErr("redis.ResponseError", "WRONGTYPE", st)

\* the integer a string value denotes for INCRBY, if it is one (string2ll:
\* canonical decimal form only)
IsRedisInt(w) ==
    LET r == ParseNumber(w, 1)
    IN  w # <<>> /\ r.ok /\ r.next = Len(w) + 1 /\ r.val.t = "int" /\ StrOf(r.val) = w

RedisInt(w) == ParseNumber(w, 1).val.v

\* the longest expiry the server accepts, in seconds (scaled down)
MaxExpiry == 6

\* SET name value [EX ex] [NX] [XX] [KEEPTTL]: an expiry that is not positive,
\* or so long that its milliseconds overflow, is rejected
DrvSet(st, k, wire, ex, nx, xx, keepttl) ==
    IF ex.given /\ (ex.sec <= 0 \/ ex.sec > MaxExpiry)
    THEN DrvErr("redis.ResponseError", "invalid expire time in 'set' command", st)
    ELSE IF (nx /\ st[k].type # "none") \/ (xx /\ st[k].type = "none")
    THEN DrvOk(PyNone, st)
    ELSE DrvOk(PyBool(TRUE),
               [st EXCEPT ![k] = StringEntry(wire,
                    IF ex.given THEN ex.sec
                    ELSE IF keepttl THEN st[k].ttl ELSE NoTtl)])

\* GET key: the raw reply, before decoding
DrvGet(st, k) ==
    IF st[k].type = "none" THEN DrvOk(WNone, st)
    ELSE IF st[k].type = "string" THEN DrvOk(WText(st[k].wire), st)
    ELSE WrongType(st)

\* DEL key
DrvDelete(st, k) ==
    DrvOk(PyInt(IF st[k].type = "none" THEN 0 ELSE 1), [st EXCEPT ![k] = Absent])

\* EXISTS key
DrvExists(st, k) == DrvOk(PyInt(IF st[k].type = "none" THEN 0 ELSE 1), st)

\* EXPIRE key seconds
DrvExpire(st, k, sec) ==
    IF st[k].type = "none" THEN DrvOk(PyBool(FALSE), st)
    ELSE IF sec <= 0 THEN DrvOk(PyBool(TRUE), [st EXCEPT ![k] = Absent])
    ELSE DrvOk(PyBool(TRUE), [st EXCEPT ![k].ttl = sec])

\* TTL key
DrvTtl(st, k) ==
    DrvOk(PyInt(IF st[k].type = "none" THEN 0 - 2 ELSE st[k].ttl), st)

\* INCRBY key delta (INCR, DECR and DECRBY are INCRBY with 1, -1 and -delta)
DrvIncrBy(st, k, delta) ==
    IF st[k].type = "none"
    THEN DrvOk(PyInt(delta), [st EXCEPT ![k] = StringEntry(StrOf(PyInt(delta)), NoTtl)])
    ELSE IF st[k].type # "string" THEN WrongType(st)
    ELSE IF ~IsRedisInt(st[k].wire)
    THEN DrvErr("redis.ResponseError", "value is not an integer or out of range", st)
    ELSE LET n == RedisInt(st[k].wire) + delta
         IN  DrvOk(PyInt(n), [st EXCEPT ![k].wire = StrOf(PyInt(n))])

\* STRLEN key
DrvStrlen(st, k) ==
    IF st[k].type = "none" THEN DrvOk(PyInt(0), st)
    ELSE IF st[k].type = "string" THEN DrvOk(PyInt(Len(st[k].wire)), st)
    ELSE WrongType(st)

\* the driver's reply to a command whose result the model does not compute
Reply(op) == [t |-> "reply", op |-> op]

\* every other command: the type check, and creation of an absent key by the
\* commands that create
DrvOther(st, op, k) ==
    IF KeyType(op) = "nokey" THEN DrvOk(Reply(op), st)
    ELSE IF st[k].type \notin {"none", KeyType(op)} THEN WrongType(st)
    ELSE IF st[k].type = "none" /\ op \in CreatingOps
    THEN DrvOk(Reply(op), [st EXCEPT ![k] = OtherEntry(KeyType(op), NoTtl)])
    ELSE DrvOk(Reply(op), st)

\* the arguments of one facade call
NoExpire == [given |-> FALSE, sec |-> 0]
ExpireIn(sec) == [given |-> TRUE, sec |-> sec]

\* one call of the driver method an operation awaits, under a fault
Driver(st, op, a, wire, ex, fault) ==
    IF fault \in Transient THEN DrvErr(fault, "connection lost", st)
    ELSE IF fault = "AttributeError" THEN DrvErr("AttributeError", "no such method", st)
    ELSE IF fault = "READONLY"
    THEN DrvErr("redis.ResponseError", "READONLY You can't write against a read only replica", st)
    ELSE CASE op = "async_set" -> DrvSet(st, a.key, wire, ex, a.nx, FALSE, FALSE)
           [] op = "async_get" -> DrvGet(st, a.key)
           [] op = "async_delete" -> DrvDelete(st, a.key)
           [] op = "async_exists" -> DrvExists(st, a.key)
           [] op = "async_expire" -> DrvExpire(st, a.key, a.ex.sec)
           [] op = "async_ttl" -> DrvTtl(st, a.key)
           [] op = "async_incr" -> DrvIncrBy(st, a.key, 1)
           [] op = "async_decr" -> DrvIncrBy(st, a.key, 0 - 1)
           [] op = "async_incrby" -> DrvIncrBy(st, a.key, a.delta)
           [] op = "async_decrby" -> DrvIncrBy(st, a.key, 0 - a.delta)
           [] op = "async_strlen" -> DrvStrlen(st, a.key)
           [] OTHER -> DrvOther(st, op, a.key)

\* ------------------------------------------------------------------------
\* The bodies of the facade operations: try block and except clause
\* ------------------------------------------------------------------------
MsgReadonly == "READONLY You can't write against a read only replica"
MsgInvalidExpire == "invalid expire time in 'set' command"

\* the try block ended in a return / in an exception; acc is what the async_
\* property did, `called` tells whether the driver method was reached, `drv`
\* what the driver call itself raised
TryReturned(val, st, acc) ==
    [ok |-> TRUE, val |-> val, err |-> Error("none", ""), client |-> acc.client,
     st |-> st, built |-> acc.kind, called |-> TRUE, drv |-> "none"]
TryRaised(err, st, acc, called) ==
    [ok |-> FALSE, val |-> PyNone, err |-> err, client |-> acc.client,
     st |-> st, built |-> acc.kind, called |-> called,
     drv |-> IF called THEN err.cls ELSE "none"]

\* the async_ property was not evaluated
NotAccessed(cl) == [kind |-> "kept", client |-> cl, raised |-> FALSE]

\* lines 299-309 of async_set: the expiry handed to the driver; an expiry
\* that is zero or negative is dropped with a warning
ExpiryToSend(expire) ==
    IF expire.given /\ expire.sec > 0 THEN expire ELSE NoExpire

\* the value encoded before the driver call, where the operation encodes one
\* (async_hset leaves a value of None alone)
EncodedArg(op, a) ==
    IF op \in EncodingOps /\ ~(op = "async_hset" /\ a.val = PyNone)
    THEN _serialize(a.val)
    ELSE [ok |-> TRUE, wire |-> <<>>]

\* what the operation makes of the driver's reply
Decoded(op, raw) ==
    IF op = "async_get" THEN _deserialize(raw)
    ELSE IF op \in {"async_lset", "async_ltrim"} THEN [ok |-> TRUE, val |-> PyBool(TRUE)]
    ELSE [ok |-> TRUE, val |-> raw]

\* the reply decoded: an exception of the decoder, or the value returned
TryDecoded(st, acc, r) ==
    IF ~r.ok THEN TryRaised(r.err, st, acc, TRUE) ELSE TryReturned(r.val, st, acc)

\* the driver call made: its exception, or its reply handed to the decoder
TryDriver(op, acc, d) ==
    IF ~d.ok THEN TryRaised(d.err, d.st, acc, TRUE)
    ELSE TryDecoded(d.st, acc, Decoded(op, d.val))

\* the arguments encoded and the client fetched: either may have raised
TryWith(op, a, st, cl, fault, enc, acc) ==
    IF ~enc.ok THEN TryRaised(enc.err, st, NotAccessed(cl), FALSE)
    ELSE IF acc.raised
    THEN TryRaised(Error("Exception", "construction failed"), st, acc, FALSE)
    ELSE TryDriver(op, acc, Driver(st, op, a, enc.wire, ExpiryToSend(a.ex), fault))

\* the try block of an operation: encode, get the client, await the driver
\* call, decode
TryBody(op, a, st, c, cl, buildOk, fault) ==
    TryWith(op, a, st, cl, fault, EncodedArg(op, a), async_(c, cl, buildOk))

NoOutcome == [val |-> PyNone, err |-> Error("none", ""), kind |-> "none", via |-> "none", at |-> 0]
Returns(val, via) == [val |-> val, err |-> Error("none", ""), kind |-> "return", via |-> via, at |-> 0]
Raises(err) == [val |-> PyNone, err |-> err, kind |-> "raise", via |-> "except", at |-> 0]

\* both except clauses of async_set returning False whatever the exception
SetHandlerReturnsFalse(err) == Returns(PyBool(FALSE), "except")

\* lines 319-331: the two except clauses of async_set
SetHandler(err) ==
    IF err.cls = "redis.ResponseError" /\ err.msg = MsgReadonly
    THEN Raises(Error("Exception", "Redis is configured as read-only replica"))
    ELSE IF err.cls = "redis.ResponseError" /\ err.msg = MsgInvalidExpire
    THEN Raises(Error("Exception", "Invalid expire time"))
    ELSE Returns(PyBool(FALSE), "except")

\* the re-raising handlers returning 0 instead, as async_delete's does
HandlerReturnsZero(op, err) ==
    IF Policy(op) = "set" THEN SetHandler(err)
    ELSE IF Policy(op) = "raise" THEN Returns(PyInt(0), "except")
    ELSE Returns(Default(op), "except")

\* the except clause of an operation, applied to the exception of its try block
Handler(op, err) ==
    IF Policy(op) = "set" THEN SetHandler(err)
    ELSE IF Policy(op) = "raise" THEN Raises(err)
    ELSE Returns(Default(op), "except")

\* nothing logged at error level
NoLog == [cls |-> "none", msg |-> "", op |-> "none", key |-> ""]

\* only the re-raising except clauses logging
LoggedByRaisersOnly(op, a, body) ==
    IF body.ok \/ Policy(op) = "default" THEN NoLog
    ELSE [cls |-> body.err.cls, msg |-> body.err.msg, op |-> op,
          key |-> IF KeyType(op) = "nokey" THEN "" ELSE a.key]

\* the logger.error call that opens every except clause: its message names
\* the operation, the key or structure it was given, and the exception
Logged(op, a, body) ==
    IF body.ok THEN NoLog
    ELSE [cls |-> body.err.cls, msg |-> body.err.msg, op |-> op,
          key |-> IF KeyType(op) = "nokey" THEN "" ELSE a.key]

\* one run of the decorated function: try block, then except clause if it raised
FuncOutcome(op, body) ==
    IF body.ok THEN Returns(body.val, "try") ELSE Handler(op, body.err)

\* ------------------------------------------------------------------------
\* _async_retry_decorator: backoff.on_exception(expo, (RedisError,
\* ConnectionError), max_tries = retry_attempts)
\* ------------------------------------------------------------------------
\* the exception classes the wrapper catches (line 165)
Retryable(cls) == cls \in RedisErrors \cup {"ConnectionError"}

\* giving up one attempt late
GivesUpLate(tries, max_tries) == tries = max_tries + 1

\* backoff gives up when the number of tries reaches max_tries (line 166)
GivesUp(tries, max_tries) == tries = max_tries

\* one attempt as the wrapper saw it: whether the driver method was reached,
\* what the driver call raised, what the key held, what the function raised
Event(body, o, seen, log) ==
    [ok |-> body.ok,
     raised |-> IF o.kind = "raise" THEN o.err ELSE Error("none", ""), called |-> body.called, drv |-> body.drv,
     seen |-> seen, log |-> log]

\* the exception the wrapper lets out is the one it has just caught
Surfaced(hist) == [Raises(hist[Len(hist)].raised) EXCEPT !.at = Len(hist)]

\* what the wrapper does with the outcome of one run of the function; hist
\* holds the attempts made so far, this one included
AfterAttempt(o, hist, max_tries) ==
    IF o.kind = "raise" /\ Retryable(o.err.cls) /\ ~GivesUp(Len(hist), max_tries)
    THEN [pc |-> "sleep", out |-> NoOutcome]
    ELSE IF o.kind = "raise" THEN [pc |-> "done", out |-> Surfaced(hist)]
    ELSE [pc |-> "done", out |-> o]

\* ------------------------------------------------------------------------
\* State
\* ------------------------------------------------------------------------
VARIABLES
    cfg,      \* settings.redis: retry_attempts, is_cluster, cluster_nodes
    life,     \* "new" before __init__, "ready" after it, "failed" if it raised
    client,   \* self._async_client: "none", "standalone" or "cluster"
    builds,   \* the kinds of client constructed so far, in order
    store,    \* the server's keys
    written,  \* per key: the value of the last successful async_set, while
              \* nothing else has changed the key since
    call,     \* the facade call in progress
    cin, cwire, cout, cpc,  \* the codec under test: input, wire text, output
    begun,    \* the caller's view of the transaction: async_multi_exec has
              \* returned and async_execute has not yet (the facade itself
              \* keeps no such flag)
    shut,     \* async_close: the calls made so far, how the last one ended,
              \* and whether the client's connections are open
    blk,      \* one blocking pop awaited on an empty list, with its clock
    tasks,    \* the tasks of the event loop that call the facade, each with
              \* its position and the connection it has checked out
    async_pool,  \* the ConnectionPool of the standalone client
    bo,       \* the wait generator of the retry wrapper during one call
    coll,     \* the list or set held at one key, with its members
    lst,      \* a caller reading a list with async_lrange between trims
    hx,       \* one request to /lpushx or /rpushx
    sm        \* a caller adding to a set and reading it back

facadeVars == <<cfg, life, client, builds, store, written, call, begun, shut>>
codecVars == <<cin, cwire, cout, cpc>>
\* the variables the facade's own steps leave alone
poolVars == <<tasks, async_pool>>
collVars == <<coll, lst, hx, sm>>
restVars == <<blk, poolVars, bo, collVars>>
vars == <<facadeVars, codecVars, restVars>>

\* values handed to async_set: one of each supported category, None, a
\* numeric string and an unencodable object
FacadeValues ==
    {PyStr(<<"a">>), PyStr(<<"1">>), PyInt(2), PyFloat(FALSE, 15, 1), PyBool(TRUE),
     PyList(<<PyInt(2), PyStr(<<"a">>)>>), PyDict(<<<<<<"a">>, PyInt(2)>>>>), PyNone,
     PyOpaque}

\* values handed to the other encoding operations
MemberValues == {PyStr(<<"a">>), PyOpaque}

\* expire arguments of async_set, in seconds
ExpireChoices ==
    {NoExpire, ExpireIn(0 - 1), ExpireIn(0), ExpireIn(5), ExpireIn(MaxExpiry + 1)}

NoArgs(k) == [val |-> PyNone, ex |-> NoExpire, nx |-> FALSE, delta |-> 0, key |-> k]

\* the argument lists explored for an operation
ArgsOf(op) ==
    IF op = "async_set"
    THEN {[val |-> v, ex |-> e, nx |-> n, delta |-> 0, key |-> k] :
             k \in Keys, v \in FacadeValues, e \in ExpireChoices, n \in BOOLEAN}
    ELSE IF op \in EncodingOps
    THEN {[NoArgs(k) EXCEPT !.val = v] : k \in Keys, v \in MemberValues}
    ELSE IF op = "async_expire" THEN {[NoArgs(k) EXCEPT !.ex = ExpireIn(5)] : k \in Keys}
    ELSE IF op \in {"async_incrby", "async_decrby"}
    THEN {[NoArgs(k) EXCEPT !.delta = 2] : k \in Keys}
    ELSE {NoArgs(k) : k \in Keys}

Idle == [op |-> "none", a |-> NoArgs("k"), hist |-> <<>>, pc |-> "idle", out |-> NoOutcome]

Unknown == [val |-> PyNone, known |-> FALSE]
Known(v) == [val |-> v, known |-> TRUE]

IntOps == {"async_incr", "async_decr", "async_incrby", "async_decrby"}

\* the step an integer operation would take
DeltaOf(op, a) ==
    CASE op = "async_incr" -> 1
      [] op = "async_decr" -> 0 - 1
      [] op = "async_incrby" -> a.delta
      [] op = "async_decrby" -> 0 - a.delta

\* counters stay within -MaxCounter..MaxCounter
WithinCounter(op, a) ==
    LET e == store[a.key]
        n == (IF e.type = "string" /\ IsRedisInt(e.wire) THEN RedisInt(e.wire) ELSE 0)
             + DeltaOf(op, a)
    IN  op \in IntOps => (n <= MaxCounter /\ 0 - n <= MaxCounter)

\* what the key holds, as an integer operation sees it
Seen(e) ==
    IF e.type = "none" THEN "absent"
    ELSE IF e.type # "string" THEN "other"
    ELSE IF IsRedisInt(e.wire) THEN "int" ELSE "nonint"

\* most calls of async_close explored
MaxCloses == 3

\* no async_close yet: the connections are open
NotShut == [out |-> "none", calls |-> 0, pool |-> "open", failed |-> FALSE]

\* async_close with an except clause that re-raises, like async_execute's
async_closeReraising(cl, sh, closeOk) ==
    IF cl = "none"
    THEN [out |-> "return", calls |-> sh.calls + 1, pool |-> sh.pool, failed |-> FALSE]
    ELSE IF closeOk
    THEN [out |-> "return", calls |-> sh.calls + 1, pool |-> "released", failed |-> FALSE]
    ELSE [out |-> "raise", calls |-> sh.calls + 1, pool |-> sh.pool, failed |-> TRUE]

\* async_close: aclose() is awaited only when the handle is set; an exception
\* of aclose() is logged and swallowed; the handle itself is kept
async_close(cl, sh, closeOk) ==
    IF cl = "none"
    THEN [out |-> "return", calls |-> sh.calls + 1, pool |-> sh.pool, failed |-> FALSE]
    ELSE IF closeOk
    THEN [out |-> "return", calls |-> sh.calls + 1, pool |-> "released", failed |-> FALSE]
    ELSE [out |-> "return", calls |-> sh.calls + 1, pool |-> sh.pool, failed |-> TRUE]

\* the attempt got a reply from the server, so a connection is open (again)
Connected(body) == body.called /\ body.drv \notin Transient \cup {"AttributeError"}

\* no blocking pop under way
BlkOff == [pc |-> "off"]

\* largest timeout argument of async_blpop, in ticks of the clock (a tick is
\* longer than any scheduling slack)
MaxTimeout == 3
\* how long the clock runs
MaxClock == 8

\* settings.redis.socket_timeout: None, or a number of ticks
SocketTimeouts == {NoExpire} \cup {ExpireIn(n) : n \in 1..MaxTimeout + 1}

\* async_blpop(key, timeout = T) awaited on an empty list, on a pool built
\* with socket_timeout and retry_on_timeout: `since` counts the ticks since the
\* command was last sent, `waited` the ticks since the call
Blocked(timeout, sock, retry_on_timeout) ==
    [pc |-> "blocked", out |-> NoOutcome, timeout |-> timeout,
     sock |-> sock, resend |-> IF retry_on_timeout THEN 1 ELSE 0, since |-> 0,
     waited |-> 0]

\* the server's own timer: BLPOP with timeout T > 0 answers nil after T; with
\* timeout 0 it never answers while the list is empty
ServerDue(b) == b.timeout > 0 /\ b.since = b.timeout

\* the read on the socket gives up after socket_timeout
SocketDue(b) == b.sock.given /\ b.since = b.sock.sec

\* ------------------------------------------------------------------------
\* The connection pool of the standalone client and the tasks that use it
\* ------------------------------------------------------------------------
\* the coroutines the event loop runs side by side
MaxTasks == 3
Tasks == 1..MaxTasks

\* the largest max_connections setting explored
MaxConnections == 2

\* a task outside any call
TaskIdle == [op |-> "none", tries |-> 0, pc |-> "idle", conn |-> 0, flying |-> {}]

TasksOff == [t \in Tasks |-> TaskIdle]

\* the operations the tasks call: one whose except clause returns a default
\* and one whose except clause re-raises into the retry wrapper
TaskOps == {"async_get", "async_incr"}

\* a wrapper that starts its next attempt without awaiting the one before
MayStartDetached(task) == task.pc \in {"idle", "sleep", "accessed", "inflight"}

\* where the wrapper starts an attempt: at the call (line 172), and when the
\* sleep that backoff awaits after a failed attempt is over
MayStart(task) == task.pc \in {"idle", "sleep"}

\* the attempt of a task has ended with the outcome o of the decorated
\* function: the wrapper sleeps before another attempt, or the call is over
TaskAfter(task, o, max_tries) ==
    IF o.kind = "raise" /\ Retryable(o.err.cls) /\ ~GivesUp(task.tries, max_tries)
    THEN [task EXCEPT !.pc = "sleep", !.conn = 0, !.flying = @ \ {task.tries}]
    ELSE TaskIdle

\* no pool: the pool's bookkeeping is not followed
NoPool == [max_connections |-> 0, created |-> 0, free |-> {}, used |-> {}]

\* ConnectionPool(max_connections=settings.redis.max_connections, ...): no
\* connection is made until a command asks for one
ConnectionPool(max_connections) ==
    [max_connections |-> max_connections, created |-> 0, free |-> {}, used |-> {}]

Smallest(S) == CHOOSE c \in S : \A d \in S : c <= d

\* a pool that makes a new connection whenever none is free
get_connectionUnlimited(p) ==
    IF p.free # {}
    THEN [ok |-> TRUE, pool |-> [p EXCEPT !.free = p.free \ {Smallest(p.free)},
                             !.used = p.used \cup {Smallest(p.free)}],
          conn |-> Smallest(p.free)]
    ELSE [ok |-> TRUE, pool |-> [p EXCEPT !.created = p.created + 1,
                             !.used = p.used \cup {p.created + 1}],
          conn |-> p.created + 1]

\* the pool hands out a free connection, or makes one while fewer than
\* max_connections are in use, or raises ConnectionError("Too many
\* connections")
get_connection(p) ==
    IF p.free # {}
    THEN [ok |-> TRUE, pool |-> [p EXCEPT !.free = p.free \ {Smallest(p.free)},
                             !.used = p.used \cup {Smallest(p.free)}],
          conn |-> Smallest(p.free)]
    ELSE IF Cardinality(p.used) >= p.max_connections
    THEN [ok |-> FALSE, pool |-> p, conn |-> 0]
    ELSE [ok |-> TRUE, pool |-> [p EXCEPT !.created = p.created + 1,
                             !.used = p.used \cup {p.created + 1}],
          conn |-> p.created + 1]

\* the command is over, with a reply or an error: the connection goes back
release(p, c) == [p EXCEPT !.free = p.free \cup {c}, !.used = p.used \ {c}]

\* the tasks that have read redis_client.async_ and whose command is not over
Calling(ts) == {t \in Tasks : ts[t].pc \in {"accessed", "inflight", "refused"}}

\* the tasks whose command holds a connection
InFlight(ts) == {t \in Tasks : ts[t].pc = "inflight"}

\* ------------------------------------------------------------------------
\* The waits of the retry wrapper: backoff.expo with backoff.full_jitter
\* ------------------------------------------------------------------------
\* base=2 (line 167)
Base == 2

\* the largest retry_delay setting explored, in clock ticks
MaxFactor == 3

RECURSIVE Pow(_, _)
Pow(b, n) == IF n = 0 THEN 1 ELSE b * Pow(b, n - 1)

\* backoff.expo(base, factor): its n-th value, counted from 0
expo(base, factor, n) == factor * Pow(base, n)

\* backoff.random_jitter: the value plus up to one tick
random_jitter(value) == value..value + 1

\* backoff.full_jitter: random.uniform(0, value)
full_jitter(value) == 0..value

BoOff == [pc |-> "off"]

\* the wrapper at the start of a call: the first attempt runs, the generator
\* has yielded nothing
Backoff(factor, max_tries) ==
    [n |-> 0, value |-> 0, tries |-> 1, max_tries |-> max_tries, pc |-> "run",
     factor |-> factor, wait |-> 0, left |-> 0]

\* ------------------------------------------------------------------------
\* Lists and sets: the members of one key, and the operations on them
\* ------------------------------------------------------------------------
\* texts held as members
MemberTexts == {<<"a">>, <<"2">>, <<"[", "2", "]">>}

\* the key holds nothing
NoColl == [type |-> "none", items |-> <<>>, members |-> {}]

\* a list with these items; the server removes a list that becomes empty
ListOf(items) ==
    IF items = <<>> THEN NoColl ELSE [type |-> "list", items |-> items, members |-> {}]

\* a set with these members
SetOf(members) ==
    IF members = {} THEN NoColl ELSE [type |-> "set", items |-> <<>>, members |-> members]

\* a start or end index as the server reads it for a list of n items
FromEnd(i, n) == IF i < 0 THEN n + i ELSE i

\* the items from start to end, both counted from 0 and both included
Slice(items, start, end) ==
    LET n == Len(items)
        s == IF FromEnd(start, n) < 0 THEN 0 ELSE FromEnd(start, n)
        e == IF FromEnd(end, n) >= n THEN n - 1 ELSE FromEnd(end, n)
    IN  IF s > e THEN <<>> ELSE SubSeq(items, s + 1, e + 1)

\* LLEN key
DrvLlen(c) ==
    IF c.type \in {"none", "list"} THEN DrvOk(PyInt(Len(c.items)), c) ELSE WrongType(c)

\* LRANGE key start end
DrvLrange(c, start, end) ==
    IF c.type \in {"none", "list"} THEN DrvOk(Slice(c.items, start, end), c)
    ELSE WrongType(c)

\* LTRIM that leaves the item at the end index out
DrvLtrimExclusive(c, start, end) ==
    IF c.type \in {"none", "list"}
    THEN DrvOk(Reply("async_ltrim"), ListOf(Slice(c.items, start, end - 1)))
    ELSE WrongType(c)

\* LTRIM key start end
DrvLtrim(c, start, end) ==
    IF c.type \in {"none", "list"}
    THEN DrvOk(Reply("async_ltrim"), ListOf(Slice(c.items, start, end)))
    ELSE WrongType(c)

\* LPUSH key item and RPUSH key item
DrvPush(c, where, w) ==
    IF c.type \notin {"none", "list"} THEN WrongType(c)
    ELSE DrvOk(PyInt(Len(c.items) + 1),
               ListOf(IF where = "left" THEN <<w>> \o c.items ELSE Append(c.items, w)))

\* LPOP key
DrvLpop(c) ==
    IF c.type \notin {"none", "list"} THEN WrongType(c)
    ELSE IF c.items = <<>> THEN DrvOk(WNone, c)
    ELSE DrvOk(WText(Head(c.items)), ListOf(Tail(c.items)))

\* faults of the driver calls on lists and sets
CollFaults == {"ok", "redis.ConnectionError"}

\* a driver call on the key under a fault
Faulty(fault, c, d) == IF fault = "ok" THEN d ELSE DrvErr(fault, "connection lost", c)

\* a facade operation whose try block returns what the driver returned
Passed(op, d) ==
    [out |-> IF d.ok THEN Returns(d.val, "try") ELSE Handler(op, d.err), coll |-> d.st]

\* async_llen
async_llen(c, fault) == Passed("async_llen", Faulty(fault, c, DrvLlen(c)))

\* async_lpush and async_rpush with one value: the value is encoded first
async_push(op, c, value, fault) ==
    LET enc == _serialize(value)
    IN  IF ~enc.ok THEN [out |-> Handler(op, enc.err), coll |-> c]
        ELSE Passed(op, Faulty(fault, c,
                     DrvPush(c, IF op = "async_lpush" THEN "left" ELSE "right", enc.wire)))

\* async_ltrim: True once the driver call has returned
async_ltrim(c, start, end, fault) ==
    LET d == Faulty(fault, c, DrvLtrim(c, start, end))
    IN  [out |-> IF d.ok THEN Returns(PyBool(TRUE), "try")
                 ELSE Handler("async_ltrim", d.err),
         coll |-> d.st]

\* every item of a reply decoded (a reply of texts: none of them fails)
DecodedItems(ws) == [i \in 1..Len(ws) |-> _deserialize(WText(ws[i])).val]

\* async_lrange: the reply with every item decoded
async_lrange(c, start, end, fault) ==
    LET d == Faulty(fault, c, DrvLrange(c, start, end))
    IN  [out |-> IF d.ok THEN Returns(PyList(DecodedItems(d.val)), "try")
                 ELSE Handler("async_lrange", d.err),
         coll |-> d.st]

\* most trims explored
MaxTrims == 2

LstOff == [pc |-> "off"]

\* nothing read yet
LstStart == [pc |-> "start", first |-> NoOutcome, last |-> NoOutcome, trims |-> 0]

HxOff == [pc |-> "off"]

\* a request to /lpushx (op async_lpush) or /rpushx (op async_rpush) arrives
HxStart(op) ==
    [op |-> op, pc |-> "start", out |-> "none", length |-> 0, existed |-> FALSE]

\* the value the request carries
HxValue == PyStr(<<"a">>)
SmOff == [pc |-> "off"]

\* values handed to async_sadd: texts, an integer, None, a list and a mapping
SetValues ==
    {PyStr(<<"a">>), PyStr(<<"2">>), PyInt(2), PyNone, PyList(<<PyInt(2)>>),
     PyDict(<<<<<<"a">>, PyInt(2)>>>>)}

PySet(S) == [t |-> "set", v |-> S]

\* values a Python set can hold
Hashable(v) == v.t \notin {"list", "dict"}

\* SADD key member
DrvSadd(c, w) ==
    IF c.type \notin {"none", "set"} THEN WrongType(c)
    ELSE DrvOk(PyInt(IF w \in c.members THEN 0 ELSE 1), SetOf(c.members \cup {w}))

\* SMEMBERS key
DrvSmembers(c) ==
    IF c.type \notin {"none", "set"} THEN WrongType(c) ELSE DrvOk(c.members, c)

\* async_sadd with one value: the value is encoded first
async_sadd(c, value, fault) ==
    LET enc == _serialize(value)
    IN  IF ~enc.ok THEN [out |-> Handler("async_sadd", enc.err), coll |-> c]
        ELSE Passed("async_sadd", Faulty(fault, c, DrvSadd(c, enc.wire)))

\* the members of a reply decoded
DecodedMembers(ws) == {_deserialize(WText(w)).val : w \in ws}

\* async_smembers: a set comprehension over the decoded members, which raises
\* TypeError when a decoded member is a list or a mapping
async_smembers(c, fault) ==
    LET d == Faulty(fault, c, DrvSmembers(c))
    IN  [out |-> IF ~d.ok THEN Handler("async_smembers", d.err)
                 ELSE IF \E x \in DecodedMembers(d.val) : ~Hashable(x)
                 THEN Handler("async_smembers", Error("TypeError", "unhashable type"))
                 ELSE Returns(PySet(DecodedMembers(d.val)), "try"),
         coll |-> d.st]

\* nothing added yet
SmStart ==
    [pc |-> "start", last |-> PyNone, added |-> {}, got |-> NoOutcome, healthy |-> FALSE]

\* ------------------------------------------------------------------------
\* Actions
\* ------------------------------------------------------------------------
CollIdle == coll = NoColl /\ lst = LstOff /\ hx = HxOff /\ sm = SmOff

CodecIdle == cin = PyNone /\ cwire = WNone /\ cout = PyNone /\ cpc = "off"

\* RedisClient.__init__: the first _init_client
Construct ==
    /\ life = "new"
    /\ \E buildOk \in BOOLEAN :
         LET r == _init_client(cfg, client, buildOk)
         IN  /\ client' = r.client
             /\ builds' = Append(builds, r.kind)
             /\ life' = IF r.raised THEN "failed" ELSE "ready"
    /\ UNCHANGED <<cfg, store, written, call, begun, shut, codecVars, restVars>>

\* a caller awaits redis_client.<op>(...)
InvokeOp(op, a) ==
    /\ life = "ready"
    /\ call.pc = "idle"
    /\ WithinCounter(op, a)
    /\ call' = [op |-> op, a |-> a, hist |-> <<>>, pc |-> "run", out |-> NoOutcome]
    /\ UNCHANGED <<cfg, life, client, builds, store, written, begun, shut, codecVars, restVars>>

\* a caller awaits one operation of the facade with some argument list; the
\* arguments are drawn anew in every state
Invoke ==
    /\ call.pc = "idle"
    /\ \E op \in Ops : \E a \in ArgsOf(op) : InvokeOp(op, a)

\* the liveness probe
Ping == InvokeOp("async_ping", NoArgs("k"))

\* the state after one attempt, given the try block's result, the attempts so
\* far and the wrapper's decision
Settle(body, hist, nxt) ==
    /\ call' = [call EXCEPT !.pc = nxt.pc, !.hist = hist, !.out = nxt.out]
    /\ store' = body.st
    /\ client' = body.client
    /\ builds' = IF body.built # "kept" THEN Append(builds, body.built) ELSE builds
    /\ written' = [written EXCEPT ![call.a.key] =
                     IF call.op = "async_set" /\ body.ok /\ body.val = PyBool(TRUE)
                     THEN Known(call.a.val)
                     ELSE IF body.st[call.a.key] # store[call.a.key] THEN Unknown
                     ELSE written[call.a.key]]
    /\ begun' = IF call.op = "async_multi_exec" /\ body.ok THEN TRUE
                ELSE IF call.op = "async_execute" /\ body.ok THEN FALSE
                ELSE begun
    /\ shut' = IF Connected(body) THEN [shut EXCEPT !.pool = "open"] ELSE shut

Decide(body, o, hist) == Settle(body, hist, AfterAttempt(o, hist, cfg.retry_attempts))

Record(body, o) == Decide(body, o, Append(call.hist, Event(body, o, Seen(store[call.a.key]),
                                                         Logged(call.op, call.a, body))))

Run(body) == Record(body, FuncOutcome(call.op, body))

\* one attempt: the wrapper runs the decorated function once
Attempt ==
    /\ call.pc = "run"
    /\ \E fault \in FaultsOf(call.op) :
       \E buildOk \in (IF client = "none" THEN BOOLEAN ELSE {TRUE}) :
         Run(TryBody(call.op, call.a, store, cfg, client, buildOk, fault))
    /\ UNCHANGED <<cfg, life, codecVars, restVars>>

\* the backoff sleep between two attempts is over
Wake ==
    /\ call.pc = "sleep"
    /\ call' = [call EXCEPT !.pc = "run"]
    /\ UNCHANGED <<cfg, life, client, builds, store, written, begun, shut, codecVars, restVars>>

\* the caller takes the result or the exception
Return ==
    /\ call.pc = "done"
    /\ call' = Idle
    /\ UNCHANGED <<cfg, life, client, builds, store, written, begun, shut, codecVars, restVars>>

\* the server drops a key whose time to live has run out
KeyExpires ==
    /\ \E k \in Keys :
         /\ store[k].ttl > 0
         /\ store' = [store EXCEPT ![k] = Absent]
         /\ written' = [written EXCEPT ![k] = Unknown]
    /\ UNCHANGED <<cfg, life, client, builds, call, begun, shut, codecVars, restVars>>

\* a caller awaits redis_client.async_close()
Close ==
    /\ life = "ready"
    /\ shut.calls < MaxCloses
    /\ \E closeOk \in BOOLEAN : shut' = async_close(client, shut, closeOk)
    /\ UNCHANGED <<cfg, life, client, builds, store, written, call, begun, codecVars, restVars>>

\* time passes while the pop is blocked and nothing is due
Tick ==
    /\ blk.pc = "blocked"
    /\ blk.waited < MaxClock
    /\ ~ServerDue(blk) /\ ~SocketDue(blk)
    /\ blk' = [blk EXCEPT !.since = @ + 1, !.waited = @ + 1]
    /\ UNCHANGED <<facadeVars, codecVars, poolVars, bo, collVars>>

\* the server answers nil: the try block of async_blpop returns it
ServerReplies ==
    /\ blk.pc = "blocked"
    /\ ServerDue(blk)
    /\ blk' = [blk EXCEPT !.pc = "returned", !.out = Returns(PyNone, "try")]
    /\ UNCHANGED <<facadeVars, codecVars, poolVars, bo, collVars>>

\* the socket read times out: the driver sends the command once more if
\* retry_on_timeout allows, else raises redis TimeoutError into the except
\* clause of async_blpop
SocketTimesOut ==
    /\ blk.pc = "blocked"
    /\ SocketDue(blk)
    /\ blk' = IF blk.resend > 0
              THEN [blk EXCEPT !.resend = @ - 1, !.since = 0]
              ELSE [blk EXCEPT !.pc = "returned",
                               !.out = FuncOutcome("async_blpop",
                                         TryRaised(Error("redis.TimeoutError",
                                                         "Timeout reading from socket"),
                                                   store, NotAccessed(client), TRUE))]
    /\ UNCHANGED <<facadeVars, codecVars, poolVars, bo, collVars>>

\* encode the input value
Serialize ==
    /\ cpc = "in"
    /\ LET r == _serialize(cin)
       IN  IF r.ok THEN cwire' = WText(r.wire) /\ cpc' = "wire"
           ELSE cwire' = cwire /\ cpc' = "raised"
    /\ UNCHANGED <<cin, cout>>
    /\ UNCHANGED <<facadeVars, restVars>>

\* decode the wire text that came out of the encoder ("wire"), or a reply
\* that some other writer left in the store ("foreign")
Deserialize ==
    /\ cpc \in {"wire", "foreign"}
    /\ LET r == _deserialize(cwire)
       IN  IF r.ok THEN cout' = r.val /\ cpc' = (IF cpc = "wire" THEN "out" ELSE "decoded")
           ELSE cout' = cout /\ cpc' = (IF cpc = "wire" THEN "raised" ELSE "decode_raised")
    /\ UNCHANGED <<cin, cwire>>
    /\ UNCHANGED <<facadeVars, restVars>>

\* the wrapper of a task starts an attempt, which evaluates
\* redis_client.async_ on its way into the command: the property and
\* _init_client contain no await, so the test of the handle and the
\* construction are one step of the event loop
Begin ==
    /\ life = "ready"
    /\ \E t \in Tasks :
       \E buildOk \in (IF client = "none" THEN BOOLEAN ELSE {TRUE}) :
       \E op \in (IF tasks[t].pc = "idle" THEN TaskOps ELSE {tasks[t].op}) :
         LET r == async_(cfg, client, buildOk)
             n == tasks[t].tries + 1
         IN  /\ MayStart(tasks[t])
             /\ client' = r.client
             /\ builds' = IF r.kind # "kept" THEN Append(builds, r.kind) ELSE builds
             /\ tasks' = [tasks EXCEPT ![t] =
                            IF r.raised THEN TaskIdle
                            ELSE [op |-> op, tries |-> n, pc |-> "accessed", conn |-> 0,
                                  flying |-> tasks[t].flying \cup {n}]]
    /\ UNCHANGED <<cfg, life, store, written, call, begun, shut, codecVars, blk, async_pool, bo, collVars>>

\* the command asks the pool for a connection
Checkout ==
    /\ life = "ready"
    /\ \E t \in Tasks :
         LET g == get_connection(async_pool)
         IN  /\ tasks[t].pc = "accessed"
             /\ async_pool' = g.pool
             /\ tasks' = [tasks EXCEPT ![t].pc = IF g.ok THEN "inflight" ELSE "refused",
                                       ![t].conn = g.conn]
    /\ UNCHANGED <<facadeVars, codecVars, blk, bo, collVars>>

\* the reply or a connection error arrives: the connection is released and
\* the attempt ends
Checkin ==
    /\ life = "ready"
    /\ \E t \in Tasks : \E fault \in {"ok"} \cup Transient :
         /\ tasks[t].pc = "inflight"
         /\ async_pool' = release(async_pool, tasks[t].conn)
         /\ tasks' = [tasks EXCEPT ![t] =
                        IF fault = "ok" THEN TaskIdle
                        ELSE TaskAfter(tasks[t],
                                       Handler(tasks[t].op, Error(fault, "connection lost")),
                                       cfg.retry_attempts)]
    /\ UNCHANGED <<facadeVars, codecVars, blk, bo, collVars>>

\* the ConnectionError of a full pool reaches the except clause of the
\* operation, and the attempt ends as for any other connection error
Refused ==
    /\ life = "ready"
    /\ \E t \in Tasks :
         /\ tasks[t].pc = "refused"
         /\ tasks' = [tasks EXCEPT ![t] =
                        TaskAfter(tasks[t],
                                  Handler(tasks[t].op,
                                          Error("redis.ConnectionError", "Too many connections")),
                                  cfg.retry_attempts)]
    /\ UNCHANGED <<facadeVars, codecVars, blk, async_pool, bo, collVars>>

\* the attempt raised an exception the wrapper catches: it gives up, or takes
\* the next value of the generator and sleeps a jittered part of it
BoFails ==
    /\ bo.pc = "run"
    /\ IF GivesUp(bo.tries, bo.max_tries)
       THEN bo' = [bo EXCEPT !.pc = "raised"]
       ELSE \E w \in full_jitter(expo(Base, bo.factor, bo.n)) :
              bo' = [bo EXCEPT !.pc = "sleep", !.n = @ + 1,
                               !.value = expo(Base, bo.factor, bo.n),
                               !.wait = w, !.left = w]
    /\ UNCHANGED <<facadeVars, codecVars, blk, poolVars, collVars>>

\* the attempt returned
BoReturns ==
    /\ bo.pc = "run"
    /\ bo' = [bo EXCEPT !.pc = "returned"]
    /\ UNCHANGED <<facadeVars, codecVars, blk, poolVars, collVars>>

\* one tick of the sleep
BoElapses ==
    /\ bo.pc = "sleep"
    /\ bo.left > 0
    /\ bo' = [bo EXCEPT !.left = @ - 1]
    /\ UNCHANGED <<facadeVars, codecVars, blk, poolVars, collVars>>

\* the sleep is over: the next attempt
BoRetries ==
    /\ bo.pc = "sleep"
    /\ bo.left = 0
    /\ bo' = [bo EXCEPT !.pc = "run", !.tries = @ + 1]
    /\ UNCHANGED <<facadeVars, codecVars, blk, poolVars, collVars>>

\* a caller awaits async_lrange(name, 0, -1)
Lrange ==
    /\ lst.pc \in {"start", "ranged"}
    /\ \E fault \in CollFaults :
         LET r == async_lrange(coll, 0, 0 - 1, fault)
         IN  lst' = [lst EXCEPT !.pc = "ranged", !.last = r.out,
                                !.first = IF lst.pc = "start" THEN r.out ELSE @]
    /\ UNCHANGED <<facadeVars, codecVars, blk, poolVars, bo, coll, hx, sm>>

\* the caller awaits async_ltrim(name, 0, -1)
Ltrim ==
    /\ lst.pc = "ranged"
    /\ lst.trims < MaxTrims
    /\ \E fault \in CollFaults :
         LET r == async_ltrim(coll, 0, 0 - 1, fault)
         IN  /\ coll' = r.coll
             /\ lst' = [lst EXCEPT !.trims = @ + 1]
    /\ UNCHANGED <<facadeVars, codecVars, blk, poolVars, bo, hx, sm>>

\* lpushx_list_item / rpushx_list_item: length = await async_llen(name)
HxLlen ==
    /\ hx.pc = "start"
    /\ \E fault \in CollFaults :
         hx' = [hx EXCEPT !.pc = "checked", !.length = async_llen(coll, fault).out.val.v]
    /\ UNCHANGED <<facadeVars, codecVars, blk, poolVars, bo, coll, lst, sm>>

\* the handler goes on: with a positive length it awaits the push and
\* answers success, else it answers that the list does not exist; `existed`
\* tells whether the key held a list at that moment
HxAnswer ==
    /\ hx.pc = "checked"
    /\ \E fault \in CollFaults :
         LET r == async_push(hx.op, coll, HxValue, fault)
         IN  IF hx.length > 0
             THEN /\ coll' = r.coll
                  /\ hx' = [hx EXCEPT !.pc = "done", !.out = "pushed",
                                      !.existed = coll.type = "list"]
             ELSE /\ coll' = coll
                  /\ hx' = [hx EXCEPT !.pc = "done", !.out = "absent",
                                      !.existed = coll.type = "list"]
    /\ UNCHANGED <<facadeVars, codecVars, blk, poolVars, bo, lst, sm>>

\* another request pops an item off the list while the handler is under way
OtherLpop ==
    /\ hx.pc \in {"start", "checked"}
    /\ coll.type = "list"
    /\ coll' = DrvLpop(coll).st
    /\ UNCHANGED <<facadeVars, codecVars, blk, poolVars, bo, lst, hx, sm>>

\* another request pushes an item while the handler is under way
OtherRpush ==
    /\ hx.pc \in {"start", "checked"}
    /\ coll.type \in {"none", "list"}
    /\ Len(coll.items) <= MaxLen
    /\ \E w \in MemberTexts : coll' = DrvPush(coll, "right", w).st
    /\ UNCHANGED <<facadeVars, codecVars, blk, poolVars, bo, lst, hx, sm>>

\* a caller awaits async_sadd(name, v); `added` collects the values whose
\* SADD the store answered
Sadd ==
    /\ sm.pc \in {"start", "added", "read"}
    /\ \E v \in SetValues : \E fault \in CollFaults :
         LET r == async_sadd(coll, v, fault)
         IN  /\ coll' = r.coll
             /\ sm' = IF r.out.via = "try"
                      THEN [sm EXCEPT !.pc = "added", !.added = @ \cup {v}, !.last = v]
                      ELSE sm
    /\ UNCHANGED <<facadeVars, codecVars, blk, poolVars, bo, lst, hx>>

\* the caller awaits async_smembers(name) after an async_sadd that succeeded
Smembers ==
    /\ sm.pc = "added"
    /\ \E fault \in CollFaults :
         sm' = [sm EXCEPT !.pc = "read", !.got = async_smembers(coll, fault).out,
                          !.healthy = fault = "ok"]
    /\ UNCHANGED <<facadeVars, codecVars, blk, poolVars, bo, coll, lst, hx>>

\* ------------------------------------------------------------------------
\* Specifications
\* ------------------------------------------------------------------------
DefaultTopology(c) == c.is_cluster = FALSE /\ c.cluster_nodes = NodesNone

Configs == [is_cluster : BOOLEAN, cluster_nodes : NodeChoices,
            retry_attempts : 1..MaxAttempts]

\* the client as the module-level RedisClient() leaves it under the default
\* topology settings, for every retry_attempts setting
Init ==
    /\ cfg \in {c \in Configs : DefaultTopology(c)}
    /\ life = "ready"
    /\ client = "standalone"
    /\ builds = <<"standalone">>
    /\ store = [k \in Keys |-> Absent]
    /\ written = [k \in Keys |-> Unknown]
    /\ call = Idle
    /\ begun = FALSE
    /\ shut = NotShut
    /\ blk = BlkOff
    /\ tasks = TasksOff
    /\ CollIdle
    /\ bo = BoOff
    /\ async_pool = NoPool
    /\ CodecIdle

Next == Invoke \/ Attempt \/ Wake \/ Return \/ KeyExpires

Spec == Init /\ [][Next]_vars

\* construction under every topology setting, followed by liveness probes
TopoInit ==
    /\ cfg \in Configs
    /\ life = "new"
    /\ client = "none"
    /\ builds = <<>>
    /\ store = [k \in Keys |-> Absent]
    /\ written = [k \in Keys |-> Unknown]
    /\ call = Idle
    /\ begun = FALSE
    /\ shut = NotShut
    /\ blk = BlkOff
    /\ tasks = TasksOff
    /\ CollIdle
    /\ bo = BoOff
    /\ async_pool = NoPool
    /\ CodecIdle

TopoNext == Construct \/ Ping \/ Attempt \/ Return \/ Close

SpecTopo == TopoInit /\ [][TopoNext]_vars

\* the codec applied to every bounded input value, and the decoder applied to
\* every bounded reply
CodecInit ==
    /\ \/ cin \in CodecInputs /\ cwire = WNone /\ cout = PyNone /\ cpc = "in"
       \/ cin = PyNone /\ cwire \in WireInputs /\ cout = PyNone /\ cpc = "foreign"
    /\ cfg \in {c \in Configs : DefaultTopology(c) /\ c.retry_attempts = 1}
    /\ life = "ready"
    /\ client = "standalone"
    /\ builds = <<"standalone">>
    /\ store = [k \in Keys |-> Absent]
    /\ written = [k \in Keys |-> Unknown]
    /\ call = Idle
    /\ begun = FALSE
    /\ shut = NotShut
    /\ blk = BlkOff
    /\ tasks = TasksOff
    /\ CollIdle
    /\ bo = BoOff
    /\ async_pool = NoPool

CodecNext == Serialize \/ Deserialize

SpecCodec == CodecInit /\ [][CodecNext]_vars

\* one async_blpop on a list that stays empty, for every timeout argument and
\* every socket_timeout / retry_on_timeout setting
BlockInit ==
    /\ blk \in {Blocked(t, s, r) : t \in 0..MaxTimeout, s \in SocketTimeouts, r \in BOOLEAN}
    /\ cfg \in {c \in Configs : DefaultTopology(c) /\ c.retry_attempts = 1}
    /\ life = "ready"
    /\ client = "standalone"
    /\ builds = <<"standalone">>
    /\ store = [k \in Keys |-> Absent]
    /\ written = [k \in Keys |-> Unknown]
    /\ call = Idle
    /\ begun = FALSE
    /\ shut = NotShut
    /\ tasks = TasksOff
    /\ CollIdle
    /\ bo = BoOff
    /\ async_pool = NoPool
    /\ CodecIdle

BlockNext == Tick \/ ServerReplies \/ SocketTimesOut

SpecBlock == BlockInit /\ [][BlockNext]_vars

\* the standalone client as the module-level RedisClient() leaves it, for
\* every max_connections setting, used by several tasks of one event loop
PoolInit ==
    /\ cfg \in {c \in Configs : DefaultTopology(c) /\ c.retry_attempts = MaxAttempts}
    /\ life = "ready"
    /\ client = "standalone"
    /\ builds = <<"standalone">>
    /\ store = [k \in Keys |-> Absent]
    /\ written = [k \in Keys |-> Unknown]
    /\ call = Idle
    /\ begun = FALSE
    /\ shut = NotShut
    /\ blk = BlkOff
    /\ tasks = TasksOff
    /\ CollIdle
    /\ bo = BoOff
    /\ async_pool \in {ConnectionPool(n) : n \in 1..MaxConnections}
    /\ CodecIdle

PoolNext == Begin \/ Checkout \/ Checkin \/ Refused

SpecPool == PoolInit /\ [][PoolNext]_vars

\* one call through the retry wrapper, for every retry_delay and
\* retry_attempts setting
BackoffInit ==
    /\ bo \in {Backoff(f, m) : f \in 1..MaxFactor, m \in 1..MaxAttempts}
    /\ cfg \in {c \in Configs : DefaultTopology(c) /\ c.retry_attempts = 1}
    /\ life = "ready"
    /\ client = "standalone"
    /\ builds = <<"standalone">>
    /\ store = [k \in Keys |-> Absent]
    /\ written = [k \in Keys |-> Unknown]
    /\ call = Idle
    /\ begun = FALSE
    /\ shut = NotShut
    /\ blk = BlkOff
    /\ tasks = TasksOff
    /\ CollIdle
    /\ async_pool = NoPool
    /\ CodecIdle

BackoffNext == BoFails \/ BoReturns \/ BoElapses \/ BoRetries

SpecBackoff == BackoffInit /\ [][BackoffNext]_vars

\* the facade idle, as the module-level RedisClient() leaves it
FacadeIdle ==
    /\ cfg \in {c \in Configs : DefaultTopology(c) /\ c.retry_attempts = 1}
    /\ life = "ready"
    /\ client = "standalone"
    /\ builds = <<"standalone">>
    /\ store = [k \in Keys |-> Absent]
    /\ written = [k \in Keys |-> Unknown]
    /\ call = Idle
    /\ begun = FALSE
    /\ shut = NotShut
    /\ blk = BlkOff
    /\ tasks = TasksOff
    /\ async_pool = NoPool
    /\ bo = BoOff
    /\ CodecIdle

\* every list of up to MaxLen + 1 items
ListContents == {ListOf(items) : items \in SeqsUpTo(MemberTexts, MaxLen + 1)}

\* one caller reading and trimming a list nobody else writes to, for every
\* list content, a key of another type and an absent key
TrimInit ==
    /\ coll \in ListContents \cup {SetOf({<<"a">>})}
    /\ lst = LstStart
    /\ hx = HxOff
    /\ sm = SmOff
    /\ FacadeIdle

TrimNext == Lrange \/ Ltrim

SpecTrim == TrimInit /\ [][TrimNext]_vars

\* one request to /lpushx or /rpushx among other requests on the same key
PushxInit ==
    /\ coll \in ListContents \cup {SetOf({<<"a">>})}
    /\ lst = LstOff
    /\ hx \in {HxStart(op) : op \in {"async_lpush", "async_rpush"}}
    /\ sm = SmOff
    /\ FacadeIdle

PushxNext == HxLlen \/ HxAnswer \/ OtherLpop \/ OtherRpush

SpecPushx == PushxInit /\ [][PushxNext]_vars

\* one caller adding values to a set that starts out empty (or to a key that
\* holds a list) and reading the set back
SetInit ==
    /\ coll \in {NoColl, ListOf(<<<<"a">>>>)}
    /\ lst = LstOff
    /\ hx = HxOff
    /\ sm = SmStart
    /\ FacadeIdle

SetNext == Sadd \/ Smembers

SpecSet == SetInit /\ [][SetNext]_vars

\* ------------------------------------------------------------------------
\* Claims
\* ------------------------------------------------------------------------
\* C1: for every primitive value v (None, str, int, float, bool),
\* _deserialize(_serialize(v)) is v again, same value and same type.
C1_PrimitiveRoundTrip == (cpc = "out" /\ IsPrimitive(cin)) => cout = cin

\* C2: for every JSON-representable composite value v (lists and string-keyed
\* mappings, nested, with JSON primitive leaves), _deserialize(_serialize(v))
\* is structurally equal to v.
C2_CompositeRoundTrip == (cpc = "out" /\ IsComposite(cin)) => cout = cin

C2_Witness == cpc = "out" /\ cin.t = "dict" /\ Len(cin.v) = 2
              /\ cin.v[1][2].t = "list" /\ cout = cin

\* the attempts of the call in progress, and the last of them
Hist == call.hist
Last == call.hist[Len(call.hist)]
Done == call.pc = "done"

\* the driver call of attempt i was made and came back without an exception
Healthy(e) == e.called /\ e.drv = "none"

SupportedCategories == {"str", "int", "float", "bool", "list", "dict"}

\* C3: with a healthy store and no write to k in between, async_set(k, v)
\* followed by async_get(k) returns a value equal to v, for v a string, an
\* integer, a float, a boolean, a list or a mapping.
C3_SetThenGet ==
    (/\ Done
     /\ call.op = "async_get"
     /\ Healthy(Last)
     /\ written[call.a.key].known
     /\ written[call.a.key].val.t \in SupportedCategories)
    => (/\ call.out.kind = "return"
        /\ call.out.val.t = written[call.a.key].val.t
        /\ call.out.val = written[call.a.key].val)

\* C4: for every facade operation and attempt limit N = retry_attempts, no
\* operation bypasses the retry: a call does not end on a transient failure
\* of the driver before attempt N, and when the driver fails transiently on
\* attempts 1..N-1 and succeeds on attempt N the call returns the result of
\* that attempt, not an error and not a default.
C4_RetryThenSuccess ==
    Done =>
      /\ (Last.drv \in Transient => Len(Hist) = cfg.retry_attempts)
      /\ (/\ Len(Hist) = cfg.retry_attempts
          /\ \A i \in 1..(Len(Hist) - 1) : Hist[i].drv \in Transient
          /\ Healthy(Last))
         => (call.out.kind = "return" /\ call.out.via = "try")

\* C5: when the driver call is rejected by the server (a ResponseError such
\* as incr on a non-integer value), the operation makes exactly one attempt:
\* the call ends there and the driver is not called a second time.
C5_RejectionNotRetried ==
    \A i \in 1..Len(Hist) :
        Hist[i].drv = "redis.ResponseError" => (i = 1 /\ Len(Hist) = 1 /\ Done)

\* C6: whatever fails, a call makes at most retry_attempts attempts; and when
\* every attempt failed with a transient error, the exception that reaches
\* the caller is the one raised by the last attempt.
C6_BoundedAttempts ==
    /\ Len(Hist) <= cfg.retry_attempts
    /\ (/\ Done
        /\ call.out.kind = "raise"
        /\ \A i \in 1..Len(Hist) : Hist[i].drv \in Transient)
       => (/\ Len(Hist) = cfg.retry_attempts
           /\ call.out.at = Len(Hist)
           /\ call.out.err = Last.raised
           /\ call.out.err.cls = Last.drv)

C6_Witness ==
    /\ Done
    /\ call.out.kind = "raise"
    /\ Len(Hist) = cfg.retry_attempts
    /\ Len(Hist) >= 2
    /\ \A i \in 1..Len(Hist) : Hist[i].drv \in Transient
    /\ Hist[1].drv # Last.drv
    /\ call.out.err.cls = Last.drv

\* the writing operations that encode a value
EncodingWrites == {"async_set", "async_hset", "async_hsetnx", "async_lpush", "async_rpush",
                   "async_lset", "async_linsert", "async_lrem", "async_sadd", "async_srem",
                   "async_zadd", "async_zrem"}

\* C7: if encoding the value fails in a writing operation, the serialization
\* error reaches the caller: one attempt, an exception, no default value.
C7_EncodeErrorPropagates ==
    (Done /\ call.op \in EncodingWrites /\ ~Encodable(call.a.val))
    => (call.out.kind = "raise" /\ Len(Hist) = 1)

\* the read-style operations
ReadOps == {"async_get", "async_exists", "async_ttl", "async_strlen", "async_getrange",
            "async_hget", "async_hgetall", "async_hlen", "async_hkeys", "async_hvals",
            "async_hmget", "async_hexists", "async_llen", "async_lindex", "async_lrange",
            "async_smembers", "async_sismember", "async_zrange"}

\* the safe default the claim names for an operation
NamedDefault(op) ==
    IF op = "async_get" THEN PyNone
    ELSE IF op = "async_llen" THEN PyInt(0)
    ELSE Default(op)

\* C8: a read-style operation never lets a failure of the underlying call
\* reach the caller: it is not retried into an exception, and it returns its
\* fixed safe default (async_get None, async_llen 0).
C8_ReadsReturnDefault ==
    call.op \in ReadOps =>
      /\ call.pc # "sleep"
      /\ Done => /\ call.out.kind = "return"
                 /\ ~Healthy(Last) => (/\ call.out.via = "except"
                                       /\ call.out.val = NamedDefault(call.op))

C8_Witness ==
    /\ Done
    /\ call.op = "async_llen"
    /\ Last.drv \in Transient
    /\ call.out.kind = "return"
    /\ call.out.val = PyInt(0)

\* C9: async_incr, async_decr, async_incrby and async_decrby on a key holding
\* non-integer content end with an exception for the caller, never with a
\* default value, however many attempts were made.
C9_NonIntegerRaises ==
    (Done /\ call.op \in IntOps /\ Last.seen = "nonint") => call.out.kind = "raise"

C9_Witness ==
    /\ Done
    /\ call.op = "async_decrby"
    /\ Len(Hist) >= 2
    /\ Last.seen = "nonint"
    /\ Last.drv = "redis.ResponseError"
    /\ call.out.kind = "raise"

\* C10: _init_client builds a cluster connection if and only if is_cluster is
\* true and cluster_nodes is non-empty; under every other setting, is_cluster
\* with an empty or absent node list included, it builds the single-node
\* pooled connection.
C10_ClusterIffFlagAndNodes ==
    \A i \in 1..Len(builds) :
        /\ builds[i] = "cluster" <=>
             (cfg.is_cluster /\ cfg.cluster_nodes.given /\ Len(cfg.cluster_nodes.nodes) > 0)
        /\ builds[i] # "cluster" => builds[i] = "standalone"
        /\ life = "ready" => client = builds[i]

C10_Witness ==
    /\ life = "ready"
    /\ cfg.is_cluster
    /\ cfg.cluster_nodes = NodesEmpty
    /\ builds = <<"standalone">>
    /\ client = "standalone"

\* C11: after async_multi_exec has returned, a facade command issued before
\* async_execute is queued: its attempt leaves the store as it was (the queued
\* commands take effect at async_execute, which returns one result for each).
C11_QueuedUntilExecute ==
    [][(begun /\ call.pc = "run" /\ call.op # "async_execute"
              /\ call'.hist # call.hist) => store' = store]_vars

\* C12: async_execute is attempted once: whatever its driver call raised, the
\* wrapper makes no second attempt and the caller gets that exception.
C12_ExecuteNotRetried ==
    (call.op = "async_execute" /\ Len(Hist) > 0 /\ Hist[1].drv # "none")
        => (Len(Hist) = 1 /\ call.pc = "done" /\ call.out.kind = "raise")

\* C13: async_close never raises, keeps the handle, releases the connections
\* when the handle is set and aclose() succeeds, and a further async_close
\* leaves released connections released.
C13_CloseQuietIdempotent ==
    [][shut'.calls # shut.calls =>
         /\ shut'.out = "return"
         /\ client' = client
         /\ (client # "none" /\ ~shut'.failed) => shut'.pool = "released"
         /\ shut.pool = "released" => shut'.pool = "released"]_vars

\* a second async_close whose aclose() failed, after one that released the
\* connections
C13_Witness ==
    shut.calls = 2 /\ shut.failed /\ shut.pool = "released" /\ shut.out = "return"

\* C14: _deserialize never raises, whatever the reply (nothing, text, bytes,
\* valid or not), and text that is not a valid structured encoding comes back
\* unchanged.
C14_DecodeNeverFails ==
    /\ cpc # "decode_raised"
    /\ (cpc = "decoded" /\ cwire.k = "text" /\ cwire.s # <<>> /\ ~Loads(cwire.s).ok)
          => cout = PyStr(cwire.s)

\* what the caller can observe of an outcome
Observed(o) == <<o.kind, o.val, o.err>>

\* the outcome of an operation all of whose attempts fail in transport
TransientOutcome(op) ==
    FuncOutcome(op, TryRaised(Error("redis.ConnectionError", "connection lost"),
                              store, NotAccessed(client), TRUE))

\* C16: for every operation, the outcome of a call the store rejected (wrong
\* type, read-only replica, invalid expiry) differs from the outcome the same
\* call has when every attempt fails with a transient error.
C16_RejectionDistinct ==
    (Done /\ Last.drv = "redis.ResponseError")
        => Observed(call.out) # Observed(TransientOutcome(call.op))

\* C17: async_set with an expiry of zero or less is rejected as invalid: the
\* call does not store the value and return True.
C17_NonPositiveExpiryRejected ==
    (Done /\ call.op = "async_set" /\ call.a.ex.given /\ call.a.ex.sec <= 0)
        => ~(call.out.kind = "return" /\ call.out.val = PyBool(TRUE))

\* C15: async_blpop on a list that stays empty returns only when its timeout
\* T > 0 has run out, and then at T (no sooner, and no later than the slack a
\* tick covers); with timeout 0 it does not return.
C15_BlpopWaitsTimeout ==
    blk.pc = "returned" => (blk.timeout > 0 /\ blk.waited = blk.timeout)
\* C19: when the construction of the connection throws, _init_client raises
\* to its caller (the object never becomes usable), exactly one construction
\* was attempted, and the cached handle is still absent.
C19_BuildErrorPropagates ==
    (Len(builds) > 0 /\ client = "none") => (life = "failed" /\ Len(builds) = 1)

C19_Witness == life = "failed" /\ Len(builds) = 1 /\ client = "none"

\* C18: the commands in flight on the standalone pool never outnumber
\* max_connections, no two of them hold the same connection, and a command
\* that asks while max_connections are checked out gets none: it is refused.
C18_PoolBounds ==
    [][/\ Cardinality(InFlight(tasks')) <= async_pool'.max_connections
       /\ \A t, u \in InFlight(tasks') : t # u => tasks'[t].conn # tasks'[u].conn
       /\ \A t \in Tasks :
            (/\ tasks[t].pc = "accessed"
             /\ tasks'[t].pc # "accessed"
             /\ Cardinality(InFlight(tasks)) = async_pool.max_connections)
                => tasks'[t].pc = "refused"]_vars

C18_Witness ==
    /\ async_pool.max_connections = MaxConnections
    /\ Cardinality(InFlight(tasks)) = MaxConnections
    /\ \E t \in Tasks : tasks[t].pc = "refused"

C21_FailuresLogged ==
    \A i \in 1..Len(Hist) :
        ~Hist[i].ok =>
            /\ Hist[i].log.op = call.op
            /\ Hist[i].log.cls # "none"
            /\ KeyType(call.op) # "nokey" => Hist[i].log.key = call.a.key

C21_Witness ==
    /\ Done /\ call.op = "async_get"
    /\ call.out.kind = "return" /\ call.out.via = "except"
    /\ ~Last.ok /\ Last.log.op = "async_get" /\ Last.log.key = call.a.key

\* C22: the attempts of one call never overlap, whatever the other tasks do:
\* at most one attempt of a call is in flight, and a retry starts only from
\* the wrapper's sleep, after the attempt before it has ended.
C22_RetriesSequential ==
    [][\A t \in Tasks :
         /\ Cardinality(tasks'[t].flying) <= 1
         /\ (tasks'[t].tries > tasks[t].tries /\ tasks[t].tries > 0)
               => (tasks[t].pc = "sleep" /\ tasks[t].flying = {})]_vars

C22_Witness ==
    \E t, u \in Tasks :
        /\ t # u
        /\ tasks[t].pc = "inflight" /\ tasks[t].tries = 2 /\ tasks[t].flying = {2}
        /\ tasks[u].pc = "inflight"

\* C23: the wait before a retry is drawn from 0 up to the computed delay;
\* the computed delay before retry k (k = 0 for the first retry) is
\* 2^k * retry_delay, so it doubles from one retry to the next, and the wait
\* never exceeds it.
C23_FullJitterExpo ==
    [][bo'.pc = "sleep" =>
         /\ bo'.value = Pow(2, bo'.tries - 1) * bo'.factor
         /\ bo'.wait >= 0 /\ bo'.wait <= bo'.value
         /\ bo'.left <= bo'.wait
         /\ (bo.pc = "run" /\ bo.tries > 1) => bo'.value = 2 * bo.value]_vars

C23_Witness ==
    /\ bo.pc = "sleep" /\ bo.tries = 2
    /\ bo.value = 2 * bo.factor
    /\ bo.wait > 0 /\ bo.wait < bo.value /\ bo.left = 0

\* C24: an async_set the store rejects as READONLY or for an invalid expire
\* time raises to the caller after that one attempt; an async_set that fails
\* in any other way returns False; no async_set is retried.
C24_SetRejectionsRaise ==
    /\ call.op = "async_set" => call.pc # "sleep"
    /\ (Done /\ call.op = "async_set" /\ ~Last.ok) =>
          IF Last.drv = "redis.ResponseError"
                /\ Last.log.msg \in {MsgReadonly, MsgInvalidExpire}
          THEN call.out.kind = "raise" /\ Len(Hist) = 1
          ELSE call.out.kind = "return" /\ call.out.val = PyBool(FALSE)

C24_Witness ==
    /\ Done /\ call.op = "async_set" /\ Len(Hist) = 1
    /\ Last.drv = "redis.ResponseError" /\ Last.log.msg = MsgInvalidExpire
    /\ call.out.kind = "raise"

\* C25: with nobody else writing to the list, every async_lrange(name, 0, -1)
\* that the store answers returns the same sequence, before the first
\* async_ltrim(name, 0, -1) and after any number of them.
C25_TrimAllIdempotent ==
    (lst.pc = "ranged" /\ lst.first.via = "try" /\ lst.last.via = "try")
        => lst.last.val = lst.first.val

C25_Witness ==
    /\ lst.pc = "ranged" /\ lst.trims = MaxTrims
    /\ lst.first.via = "try" /\ lst.last.via = "try"
    /\ Len(lst.last.val.v) >= 2 /\ lst.last.val = lst.first.val

\* C26: a /lpushx or /rpushx request that answers has pushed only onto a
\* list that existed at the moment of the push, and has answered "list does
\* not exist" only when no list existed.
C26_PushxOnlyIfExists ==
    hx.pc = "done" =>
        /\ hx.out = "pushed" => hx.existed
        /\ hx.out = "absent" => ~hx.existed

\* C27: values that differ never get the same wire form from _serialize, so
\* a set holds as many members as distinct values were added to it.
C27_SerializeInjective ==
    /\ \A v, w \in sm.added : v # w => _serialize(v).wire # _serialize(w).wire
    /\ coll.type = "set" => Cardinality(coll.members) = Cardinality(sm.added)

\* C29: with a healthy store, async_smembers after a successful
\* async_sadd(name, v) returns a set that holds v and the decoded form of
\* every other member.
C29_SaddThenSmembers ==
    (sm.pc = "read" /\ sm.healthy) =>
        /\ sm.got.val.t = "set"
        /\ sm.last \in sm.got.val.v
        /\ \A w \in coll.members : _deserialize(WText(w)).val \in sm.got.val.v

\* C28: the default of async_ttl (-2) and of async_get (None) is returned
\* only by a call whose command the store answered, so a result equal to the
\* default tells the caller the call did not fail.
C28_DefaultsTellFailure ==
    (Done /\ call.op \in {"async_ttl", "async_get"} /\ call.out.kind = "return"
          /\ call.out.val = Default(call.op))
        => (Last.ok /\ call.out.via = "try")

\* C30: once async_close has released the connection, the cached handle is
\* absent (_is_connected is false), so the accessor builds a fresh
\* connection for the next operation.
C30_ClosedHandleDropped ==
    (shut.calls > 0 /\ shut.pool = "released") => ~_is_connected(client)

====
